---- MODULE Spec2Model ----
(***************************************************************************)
(* The ingest-and-diff core of IncentEdge's DSIRE monitor:                 *)
(*   scraper/dsire_api/tracker.py   IncentiveTracker (SQLite change store) *)
(* record_incentive is modelled statement by statement: every              *)
(* cursor.execute is one step, run inside the transaction that             *)
(* _get_connection commits on normal exit and rolls back on an exception.  *)
(* Two callers (a scheduled run and a manual run) share the database file. *)
(***************************************************************************)
EXTENDS Integers, Sequences, FiniteSets, TLC

VARIABLES
    db,      \* the committed content of the SQLite file (four tables)
    txn,     \* the working content seen by the connection that holds the write lock
    lock,    \* the process whose connection holds SQLite's write lock, or NoProc
    pc,      \* per process: the statement of record_incentive it is about to run
    call,    \* per process: arguments and locals of its record_incentive call
    clock,   \* wall clock, in seconds
    log,     \* history: the record_incentive calls that returned, in order
    last,    \* history: how the most recent record_incentive call ended
    run,     \* the scan run in progress or finished last: frame of run_scan / scan_states
    job,     \* frame of DailyScheduler._scheduled_job
    client,  \* DSIREClient: its rate limiter and the network calls it made
    sched    \* DailyScheduler: _running, _thread, the triggers and the polling loops

vars == <<db, txn, lock, pc, call, clock, log, last, run, job, client, sched>>

\* the runners and the client, which the tracker's operations leave alone
svars == <<run, job, client, sched>>

-----------------------------------------------------------------------------
(* Bounds of the model *)

MaxCalls == 2          \* record_incentive calls that return in one behaviour
ScenarioCalls == 3     \* the same, in the three-call scenario
MaxClock == 1          \* the clock stops here
MaxScans == 1          \* scan_logs rows opened in one behaviour

Procs == {"scheduled", "manual"}
NoProc == "none"
DsireIds == {"A", "B"}

Max(S) == CHOOSE x \in S : \A y \in S : y <= x

-----------------------------------------------------------------------------
(* Python values, written as their literals, and dicts as insertion-ordered *)
(* sequences of <<key, value>> pairs.                                       *)

PyNone == "None"

\* bool(v) as used by `if old_data.get(field)`
Truthy(v) == v \notin {"None", "''", "0", "False"}

\* str(v)
Str(v) ==
    CASE v = "'X'" -> "X"
      [] v = "'A'" -> "A"
      [] v = "'B'" -> "B"
      [] v = "'Y'" -> "Y"
      [] v = "'$100'" -> "$100"
      [] v = "'$200'" -> "$200"
      [] v = "''" -> ""
      [] v = "0" -> "0"
      [] v = "False" -> "False"
      [] v = "None" -> "None"
      [] v = "'Unknown'" -> "Unknown"
      [] v = "'NY'" -> "NY"
      [] v = "'https://programs.dsireusa.org/system/program/detail/A'"
            -> "https://programs.dsireusa.org/system/program/detail/A"
      [] v = "'T0'" -> "T0"
      [] v = "'T1'" -> "T1"
      [] v = "'T2'" -> "T2"
      [] v = "'T3'" -> "T3"

\* json.dumps of one value
JsonEncode(v) ==
    CASE v = "'X'" -> "\"X\""
      [] v = "'A'" -> "\"A\""
      [] v = "'B'" -> "\"B\""
      [] v = "'Y'" -> "\"Y\""
      [] v = "'$100'" -> "\"$100\""
      [] v = "'$200'" -> "\"$200\""
      [] v = "''" -> "\"\""
      [] v = "0" -> "0"
      [] v = "False" -> "false"
      [] v = "None" -> "null"
      [] v = "'Unknown'" -> "\"Unknown\""
      [] v = "'NY'" -> "\"NY\""
      [] v = "'https://programs.dsireusa.org/system/program/detail/A'"
            -> "\"https://programs.dsireusa.org/system/program/detail/A\""
      [] v = "'T0'" -> "\"T0\""
      [] v = "'T1'" -> "\"T1\""
      [] v = "'T2'" -> "\"T2\""
      [] v = "'T3'" -> "\"T3\""

\* json.loads of one value
JsonDecode(t) ==
    CASE t = "\"X\"" -> "'X'"
      [] t = "\"A\"" -> "'A'"
      [] t = "\"B\"" -> "'B'"
      [] t = "\"Y\"" -> "'Y'"
      [] t = "\"$100\"" -> "'$100'"
      [] t = "\"$200\"" -> "'$200'"
      [] t = "\"\"" -> "''"
      [] t = "0" -> "0"
      [] t = "false" -> "False"
      [] t = "null" -> "None"
      [] t = "\"Unknown\"" -> "'Unknown'"
      [] t = "\"NY\"" -> "'NY'"
      [] t = "\"https://programs.dsireusa.org/system/program/detail/A\""
            -> "'https://programs.dsireusa.org/system/program/detail/A'"
      [] t = "\"T0\"" -> "'T0'"
      [] t = "\"T1\"" -> "'T1'"
      [] t = "\"T2\"" -> "'T2'"
      [] t = "\"T3\"" -> "'T3'"

HasKey(d, k) == \E i \in 1..Len(d) : d[i][1] = k

\* dict.get(k, default)
Get(d, k, default) ==
    IF HasKey(d, k) THEN d[CHOOSE i \in 1..Len(d) : d[i][1] = k][2] ELSE default

\* the keys the payloads use, in the order sort_keys=True puts them
KeyOrder == <<"amount", "id", "incentive_amount", "name", "scraped_at", "state", "url">>

SortKeys(d) ==
    LET ks == SelectSeq(KeyOrder, LAMBDA k : HasKey(d, k))
    IN  [i \in 1..Len(ks) |-> <<ks[i], Get(d, ks[i], PyNone)>>]

\* json.dumps(data, sort_keys=..., default=str): the object text, member by member
JsonDumps(d, sort_keys) ==
    LET s == IF sort_keys THEN SortKeys(d) ELSE d
    IN  [i \in 1..Len(s) |-> <<s[i][1], JsonEncode(s[i][2])>>]

\* json.loads(text)
JsonLoads(j) == [i \in 1..Len(j) |-> <<j[i][1], JsonDecode(j[i][2])>>]

\* hashlib.md5(text).hexdigest(), taken to be collision free on the texts hashed
Md5(text) == <<"md5", text>>

\* IncentiveTracker._compute_hash
ComputeHash(data) == Md5(JsonDumps(data, TRUE))

\* payloads of the catalog entries observed
NameAmount100 == <<<<"name", "'X'">>, <<"amount", "'$100'">>>>
NameAmount200 == <<<<"name", "'X'">>, <<"amount", "'$200'">>>>
Tracked100 == <<<<"name", "'X'">>, <<"incentive_amount", "'$100'">>>>
Tracked200 == <<<<"name", "'X'">>, <<"incentive_amount", "'$200'">>>>
Tracked200Swapped == <<<<"incentive_amount", "'$200'">>, <<"name", "'X'">>>>
TrackedZero == <<<<"name", "'X'">>, <<"incentive_amount", "0">>>>
TrackedEmpty == <<<<"name", "'X'">>, <<"incentive_amount", "''">>>>

\* the (dsire_id, payload) pairs the callers observe
Inputs ==
    ({"A"} \X {Tracked100, Tracked200Swapped, TrackedZero, TrackedEmpty})
    \cup ({"B"} \X {Tracked100})

\* the pairs of the change-detection scenario, and one tracked payload
ScenarioInputs == {"A"} \X {NameAmount100, NameAmount200, Tracked100, Tracked200}

\* the pairs observed while scan_logs rows are opened and closed
ScanInputs == {"A"} \X {Tracked100, Tracked200}

\* the pairs two interleaved scans observe
ConcInputs == ({"A"} \X {Tracked100, Tracked200}) \cup ({"B"} \X {Tracked100})

-----------------------------------------------------------------------------
(* SQL values: <<s>> is the TEXT s, <<>> is NULL *)

SqlNull == <<>>
SqlText(s) == <<s>>

\* CURRENT_TIMESTAMP: the clock read to the second
CurrentTimestamp == clock

\* datetime.now(): the same clock (its sub-second part is not modelled)
DatetimeNow == clock

\* the tracked_fields list of _record_changes
tracked_fields ==
    <<"name", "program_type", "incentive_amount", "start_date", "end_date",
      "description", "eligible_sectors", "technologies", "implementing_sector",
      "contact", "website">>

\* old_value / new_value of _record_changes:
\*   str(d.get(field, '')) if d.get(field) else None
ChangeValue(d, field) ==
    IF Truthy(Get(d, field, PyNone)) THEN SqlText(Str(Get(d, field, "''"))) ELSE SqlNull

\* faulty variant: every tracked field is reported as changed
FieldChangedAlways(old_data, new_data, field) == TRUE

\* `if old_value != new_value` of _record_changes
FieldChanged(old_data, new_data, field) ==
    ChangeValue(old_data, field) # ChangeValue(new_data, field)

-----------------------------------------------------------------------------
(* Rows of the four tables. A row's id (INTEGER PRIMARY KEY AUTOINCREMENT) *)
(* is its index in the table: rows are never deleted.                      *)

EmptyDb == [incentives |-> <<>>, snapshots |-> <<>>, changes |-> <<>>, scan_logs |-> <<>>]

\* INSERT INTO incentives (dsire_id, name, state, program_type,
\*                         first_seen_at, last_seen_at, data_hash)
NewIncentiveRow(dsire_id, data, data_hash, now) ==
    [dsire_id |-> dsire_id,
     name |-> Get(data, "name", "'Unknown'"),
     state |-> Get(data, "state", "''"),
     program_type |-> Get(data, "program_type", "''"),
     first_seen_at |-> now,
     last_seen_at |-> now,
     last_updated_at |-> SqlNull,
     data_hash |-> data_hash,
     is_active |-> TRUE]

\* faulty variant: the UPDATE without `is_active = 1`
SeenRowKeepsInactive(row, now) == [row EXCEPT !.last_seen_at = now]

\* faulty variant: the UPDATE also overwrites first_seen_at
SeenRowResetsFirstSeen(row, now) ==
    [row EXCEPT !.first_seen_at = now, !.last_seen_at = now, !.is_active = TRUE]

\* faulty variant: the UPDATE without `last_seen_at = ?`
SeenRowNoTimestamp(row, now) == [row EXCEPT !.is_active = TRUE]

\* UPDATE incentives SET last_seen_at = ?, is_active = 1 WHERE id = ?
SeenRow(row, now) == [row EXCEPT !.last_seen_at = now, !.is_active = TRUE]

\* faulty variant: the UPDATE without `data_hash = ?`
HashRowKeepsHash(row, data_hash, now) == [row EXCEPT !.last_updated_at = SqlText(now)]

\* UPDATE incentives SET data_hash = ?, last_updated_at = ? WHERE id = ?
HashRow(row, data_hash, now) ==
    [row EXCEPT !.data_hash = data_hash, !.last_updated_at = SqlText(now)]

\* INSERT INTO incentive_snapshots (incentive_id, data_json, data_hash)
SnapshotRow(incentive_id, data, data_hash) ==
    [incentive_id |-> incentive_id,
     data_json |-> JsonDumps(data, FALSE),
     data_hash |-> data_hash,
     scraped_at |-> CurrentTimestamp]

\* INSERT INTO incentive_changes (incentive_id, field_name, old_value, new_value)
ChangeRow(incentive_id, field, old_value, new_value) ==
    [incentive_id |-> incentive_id,
     field_name |-> field,
     old_value |-> old_value,
     new_value |-> new_value,
     detected_at |-> CurrentTimestamp]

\* faulty variant: a schema without UNIQUE on dsire_id
UniqueNotEnforced(rows, dsire_id) == FALSE

\* dsire_id TEXT UNIQUE NOT NULL: the insert of a second row with this dsire_id fails
UniqueViolation(rows, dsire_id) == \E i \in 1..Len(rows) : rows[i].dsire_id = dsire_id

\* SELECT id, data_hash FROM incentives WHERE dsire_id = ?  (0: no row)
ExistingId(rows, dsire_id) ==
    IF \E i \in 1..Len(rows) : rows[i].dsire_id = dsire_id
    THEN CHOOSE i \in 1..Len(rows) : rows[i].dsire_id = dsire_id
    ELSE 0

\* the snapshots (row ids) of one incentive
SnapshotsOf(snapshots, incentive_id) ==
    {i \in 1..Len(snapshots) : snapshots[i].incentive_id = incentive_id}

\* SELECT data_json FROM incentive_snapshots WHERE incentive_id = ?
\* ORDER BY scraped_at DESC LIMIT 1: the rows the query may return. Rows that
\* share the greatest scraped_at are in no defined order.
LatestSnapshots(snapshots, incentive_id) ==
    LET S == SnapshotsOf(snapshots, incentive_id)
    IN  {i \in S : \A j \in S : snapshots[j].scraped_at <= snapshots[i].scraped_at}

\* faulty variant: every observation is treated as a change
HashChangedAlways(old_hash, data_hash) == TRUE

\* `if old_hash != data_hash`
HashChanged(old_hash, data_hash) == old_hash # data_hash

\* faulty variant: commit instead of rollback on an exception
RolledBackKeepsWrites(committed, working) == working

\* conn.rollback() in _get_connection: the content after an exception
RolledBack(committed, working) == committed

\* the tracked fields from position `from` on for which _record_changes inserts a row
ChangedFrom(old_data, new_data, from) ==
    {k \in from..Len(tracked_fields) : FieldChanged(old_data, new_data, tracked_fields[k])}

\* INSERT INTO scan_logs (scan_type, states_scanned, started_at); the other
\* columns take their defaults
NewScanRow(scan_type, states, now) ==
    [scan_type |-> scan_type,
     states_scanned |-> IF states # <<>> THEN SqlText(states) ELSE SqlNull,
     total_found |-> 0,
     new_incentives |-> 0,
     updated_incentives |-> 0,
     removed_incentives |-> 0,
     started_at |-> now,
     completed_at |-> SqlNull,
     status |-> "running",
     error_message |-> SqlNull]

\* UPDATE scan_logs SET status, completed_at, total_found, new_incentives,
\*   updated_incentives, removed_incentives, error_message WHERE id = ?
EndedScanRow(row, status, total_found, new_count, updated_count, removed_count, error_message, now) ==
    [row EXCEPT !.status = status,
                !.completed_at = SqlText(now),
                !.total_found = total_found,
                !.new_incentives = new_count,
                !.updated_incentives = updated_count,
                !.removed_incentives = removed_count,
                !.error_message = error_message]

\* faulty variant: the UPDATE without its WHERE clause
MarkedRowsAll(rows, dsire_ids) ==
    [i \in 1..Len(rows) |-> [rows[i] EXCEPT !.is_active = FALSE]]

\* UPDATE incentives SET is_active = 0 WHERE dsire_id IN (...)
MarkedRows(rows, dsire_ids) ==
    [i \in 1..Len(rows) |->
        IF rows[i].dsire_id \in dsire_ids
        THEN [rows[i] EXCEPT !.is_active = FALSE]
        ELSE rows[i]]

\* get_all_incentives(state, active_only): the ids of the rows returned
\* (state "" stands for None; the ORDER BY is not modelled)
GetAllIncentives(d, state, active_only) ==
    {i \in 1..Len(d.incentives) :
        /\ active_only => d.incentives[i].is_active
        /\ state # "" => d.incentives[i].state = state}

\* get_incentive_history(dsire_id): the ids of the incentive_changes rows
\* returned by the JOIN (the ORDER BY is not modelled)
GetIncentiveHistory(d, dsire_id) ==
    {c \in 1..Len(d.changes) :
        \E i \in 1..Len(d.incentives) :
            /\ d.incentives[i].dsire_id = dsire_id
            /\ d.changes[c].incentive_id = i}

\* faulty variant: the join without `s.id = (SELECT MAX(id) ...)`
GetNewIncentivesEverySnapshot(d, since) ==
    {<<i, s>> \in (1..Len(d.incentives)) \X (1..Len(d.snapshots)) :
        /\ d.snapshots[s].incentive_id = i
        /\ d.incentives[i].first_seen_at >= since}

\* get_new_incentives(since): the rows returned, each the id of an incentive
\* and the id of the snapshot joined to it (the ORDER BY is not modelled)
GetNewIncentives(d, since) ==
    {<<i, s>> \in (1..Len(d.incentives)) \X (1..Len(d.snapshots)) :
        /\ d.snapshots[s].incentive_id = i
        /\ d.incentives[i].first_seen_at >= since
        /\ s = Max(SnapshotsOf(d.snapshots, i))}

\* get_updated_incentives(since): the ids of the incentives returned, those
\* the JOIN finds an incentive_changes row for with detected_at >= since (the
\* GROUP_CONCAT column and the ORDER BY are not modelled)
GetUpdatedIncentives(d, since) ==
    {i \in 1..Len(d.incentives) :
        \E c \in 1..Len(d.changes) :
            /\ d.changes[c].incentive_id = i
            /\ d.changes[c].detected_at >= since}

-----------------------------------------------------------------------------
(* Calls *)

NoCall ==
    [dsire_id |-> "", data |-> <<>>, data_hash |-> <<>>, now |-> 0,
     found |-> FALSE, incentive_id |-> 0, old_hash |-> <<>>,
     has_old |-> FALSE, old_data |-> <<>>, field |-> 1, result |-> <<>>]

NoLast == [ret |-> <<>>, stage |-> "", discarded |-> 0]

\* a call ends with an exception of this kind
Raised(kind) == <<kind>>

IsRaised(r) == Len(r) = 1

AllIdle == \A q \in Procs : pc[q] = "idle"

\* what the connection of p reads
View(p) == IF lock = p THEN txn ELSE db

\* p's connection may write: sqlite grants the write lock to one connection
CanWrite(p) == lock \in {NoProc, p}

Write(p, content) ==
    /\ txn' = content
    /\ lock' = p
    /\ db' = db

Goto(p, label, locals) ==
    /\ pc' = [pc EXCEPT ![p] = label]
    /\ call' = [call EXCEPT ![p] = locals]
    /\ UNCHANGED <<log, last, clock>>
    /\ UNCHANGED svars

\* the payload of the snapshot written last for an incentive (<<>>: none)
LastWritten(snapshots, incentive_id) ==
    LET S == SnapshotsOf(snapshots, incentive_id)
    IN  IF S = {} THEN <<>> ELSE JsonLoads(snapshots[Max(S)].data_json)

\* the call of p returns `result`, having committed `content` over `before`
Return(p, result, before, content) ==
    LET id == call[p].incentive_id
    IN  /\ pc' = [pc EXCEPT ![p] = "idle"]
        /\ call' = [call EXCEPT ![p] = NoCall]
        /\ log' = Append(log,
              [dsire_id |-> call[p].dsire_id,
               data |-> call[p].data,
               found |-> call[p].found,
               was_active |-> IF call[p].found THEN before.incentives[id].is_active ELSE TRUE,
               ret |-> result,
               prev_data |-> LastWritten(before.snapshots, id),
               written |-> SubSeq(content.changes, Len(before.changes) + 1,
                                  Len(content.changes)),
               snapshots |-> Cardinality(SnapshotsOf(content.snapshots, id)),
               changes |-> Cardinality(GetIncentiveHistory(content, call[p].dsire_id))])
        /\ last' = [ret |-> result, stage |-> "commit", discarded |-> 0]
        /\ UNCHANGED <<clock, svars>>

\* the call of p raises at the statement it was about to run
Throw(p, kind) ==
    /\ pc' = [pc EXCEPT ![p] = "idle"]
    /\ call' = [call EXCEPT ![p] = NoCall]
    /\ last' = [ret |-> Raised(kind), stage |-> pc[p],
                discarded |-> (Len(View(p).incentives) - Len(db.incentives))
                              + (Len(View(p).snapshots) - Len(db.snapshots))
                              + (Len(View(p).changes) - Len(db.changes))]
    /\ UNCHANGED <<log, clock, svars>>

\* no run has been started
NoRun ==
    [pc |-> "idle", path |-> "", scan_type |-> "", requested |-> <<>>, states |-> <<>>,
     rotation |-> FALSE,
     day |-> 0, scan_all |-> FALSE, scan_id |-> 0, idx |-> 1, programs |-> <<>>,
     all_found_ids |-> {}, new_incentives |-> <<>>, updated_incentives |-> <<>>,
     total_found |-> 0, errors |-> <<>>, status |-> "", error |-> "",
     fetched |-> <<>>, recorded |-> <<>>, returns |-> <<>>, invoked |-> <<>>, callbacks |-> 0, webhook |-> "",
     active_before |-> {}]

\* _scheduled_job is not running
NoJob ==
    [pc |-> "idle", max_retries |-> 0, attempt |-> 0, slept |-> <<>>, outcomes |-> <<>>,
     last_scan_date |-> FALSE]

\* DSIREClient.__init__: self._last_request_time = 0; now is what time.time()
\* returns, requests the network calls issued so far
NewClient ==
    [pc |-> "idle", rate_limit_delay |-> 0, now |-> 0, last_request_time |-> 0,
     requests |-> <<>>]

MaxThreads == 2        \* polling loops one scheduler starts in one behaviour
MaxJobs == 1           \* times the daily trigger comes due
MaxStarts == 2         \* calls of start() in one behaviour

Threads == 1..MaxThreads

\* DailyScheduler.__init__: self._running = False, self._thread = None (0), no
\* trigger registered with the schedule module and no polling loop; caller is
\* the position of the thread that calls start() and stop(), stopped whether
\* stop() has returned with no start() since, starts and begun are history
NoSched ==
    [running |-> FALSE, thread |-> 0, triggers |-> 0, loops |-> [t \in Threads |-> "none"],
     caller |-> "idle", stopped |-> FALSE, starts |-> 0, begun |-> <<>>]

Init ==
    /\ db = EmptyDb
    /\ txn = EmptyDb
    /\ lock = NoProc
    /\ pc = [p \in Procs |-> "idle"]
    /\ call = [p \in Procs |-> NoCall]
    /\ clock = 0
    /\ log = <<>>
    /\ last = NoLast
    /\ run = NoRun
    /\ job = NoJob
    /\ client = NewClient
    /\ sched = NoSched

\* time passes
Tick ==
    /\ clock < MaxClock
    /\ clock' = clock + 1
    /\ UNCHANGED <<db, txn, lock, pc, call, log, last, svars>>

\* record_incentive(dsire_id, data): data_hash and now are computed before the
\* connection is opened
RecordIncentive(p, dsire_id, data) ==
    /\ pc[p] = "idle"
    /\ pc' = [pc EXCEPT ![p] = "select_existing"]
    /\ call' = [call EXCEPT ![p] =
                  [NoCall EXCEPT !.dsire_id = dsire_id, !.data = data,
                                 !.data_hash = ComputeHash(data), !.now = DatetimeNow]]
    /\ last' = NoLast
    /\ UNCHANGED <<db, txn, lock, clock, log, svars>>

\* SELECT id, data_hash FROM incentives WHERE dsire_id = ?
SelectExisting(p) ==
    /\ pc[p] = "select_existing"
    /\ LET rows == View(p).incentives
           id == ExistingId(rows, call[p].dsire_id)
       IN  IF id = 0
           THEN Goto(p, "insert_incentive", call[p])
           ELSE Goto(p, "update_seen",
                     [call[p] EXCEPT !.found = TRUE, !.incentive_id = id,
                                     !.old_hash = rows[id].data_hash])
    /\ UNCHANGED <<db, txn, lock>>

\* `if not existing`: INSERT INTO incentives
InsertIncentive(p) ==
    /\ pc[p] = "insert_incentive"
    /\ CanWrite(p)
    /\ ~UniqueViolation(View(p).incentives, call[p].dsire_id)
    /\ LET v == View(p)
           row == NewIncentiveRow(call[p].dsire_id, call[p].data,
                                  call[p].data_hash, call[p].now)
       IN  /\ Write(p, [v EXCEPT !.incentives = Append(v.incentives, row)])
           /\ Goto(p, "insert_first_snapshot",
                   [call[p] EXCEPT !.incentive_id = Len(v.incentives) + 1])

\* the INSERT hits the UNIQUE constraint: sqlite3.IntegrityError, rolled back
IntegrityError(p) ==
    /\ pc[p] = "insert_incentive"
    /\ CanWrite(p)
    /\ UniqueViolation(View(p).incentives, call[p].dsire_id)
    /\ db' = RolledBack(db, View(p))
    /\ txn' = db'
    /\ lock' = NoProc
    /\ Throw(p, "IntegrityError")

\* the initial snapshot, then `return (True, False)`
InsertFirstSnapshot(p) ==
    /\ pc[p] = "insert_first_snapshot"
    /\ CanWrite(p)
    /\ LET v == View(p)
           row == SnapshotRow(call[p].incentive_id, call[p].data, call[p].data_hash)
       IN  /\ Write(p, [v EXCEPT !.snapshots = Append(v.snapshots, row)])
           /\ Goto(p, "commit", [call[p] EXCEPT !.result = <<TRUE, FALSE>>])

\* `else`: UPDATE incentives SET last_seen_at, is_active; then the hash test
UpdateSeen(p) ==
    /\ pc[p] = "update_seen"
    /\ CanWrite(p)
    /\ LET v == View(p)
           id == call[p].incentive_id
       IN  /\ Write(p, [v EXCEPT !.incentives[id] = SeenRow(v.incentives[id], call[p].now)])
           /\ IF HashChanged(call[p].old_hash, call[p].data_hash)
              THEN Goto(p, "select_snapshot", call[p])
              ELSE Goto(p, "commit", [call[p] EXCEPT !.result = <<FALSE, FALSE>>])

\* SELECT data_json ... ORDER BY scraped_at DESC LIMIT 1; json.loads of it
SelectSnapshot(p) ==
    /\ pc[p] = "select_snapshot"
    /\ LET snaps == View(p).snapshots
           latest == LatestSnapshots(snaps, call[p].incentive_id)
       IN  IF latest = {}
           THEN Goto(p, "record_changes", [call[p] EXCEPT !.has_old = FALSE])
           ELSE \E i \in latest :
                    Goto(p, "record_changes",
                         [call[p] EXCEPT !.has_old = TRUE,
                                         !.old_data = JsonLoads(snaps[i].data_json)])
    /\ UNCHANGED <<db, txn, lock>>

\* the tracked fields _record_changes has still to write a row for
Pending(p) ==
    IF call[p].has_old
    THEN ChangedFrom(call[p].old_data, call[p].data, call[p].field)
    ELSE {}

\* _record_changes: the INSERT for the next tracked field that differs
RecordChange(p) ==
    /\ pc[p] = "record_changes"
    /\ CanWrite(p)
    /\ Pending(p) # {}
    /\ LET v == View(p)
           k == CHOOSE x \in Pending(p) : \A y \in Pending(p) : x <= y
           f == tracked_fields[k]
           row == ChangeRow(call[p].incentive_id, f,
                            ChangeValue(call[p].old_data, f), ChangeValue(call[p].data, f))
       IN  /\ Write(p, [v EXCEPT !.changes = Append(v.changes, row)])
           /\ Goto(p, "record_changes", [call[p] EXCEPT !.field = k + 1])

\* "Save new snapshot": INSERT INTO incentive_snapshots
InsertSnapshot(p) ==
    /\ pc[p] = "record_changes"
    /\ CanWrite(p)
    /\ Pending(p) = {}
    /\ LET v == View(p)
           row == SnapshotRow(call[p].incentive_id, call[p].data, call[p].data_hash)
       IN  /\ Write(p, [v EXCEPT !.snapshots = Append(v.snapshots, row)])
           /\ Goto(p, "update_hash", call[p])

\* "Update hash": UPDATE incentives SET data_hash, last_updated_at; `return (False, True)`
UpdateHash(p) ==
    /\ pc[p] = "update_hash"
    /\ CanWrite(p)
    /\ LET v == View(p)
           id == call[p].incentive_id
       IN  /\ Write(p, [v EXCEPT !.incentives[id] =
                           HashRow(v.incentives[id], call[p].data_hash, call[p].now)])
           /\ Goto(p, "commit", [call[p] EXCEPT !.result = <<FALSE, TRUE>>])

\* the `with` block is left by a return: conn.commit()
Commit(p) ==
    /\ pc[p] = "commit"
    /\ lock = p
    /\ db' = txn
    /\ txn' = txn
    /\ lock' = NoProc
    /\ Return(p, call[p].result, db, txn)

\* a statement (or the commit) raises: conn.rollback(), and the exception
\* propagates to the caller. This is also what a connection that waited
\* for the write lock longer than sqlite's busy timeout does.
Raise(p) ==
    /\ pc[p] # "idle"
    /\ db' = RolledBack(db, View(p))
    /\ txn' = IF lock = p THEN db' ELSE txn
    /\ lock' = IF lock = p THEN NoProc ELSE lock
    /\ Throw(p, "Exception")

\* mark_inactive(dsire_ids): one UPDATE in its own transaction
MarkInactive(p, dsire_ids) ==
    /\ pc[p] = "idle"
    /\ lock = NoProc
    /\ IF dsire_ids = {}
       THEN UNCHANGED <<db, txn>>
       ELSE /\ db' = [db EXCEPT !.incentives = MarkedRows(@, dsire_ids)]
            /\ txn' = db'
    /\ UNCHANGED <<lock, pc, call, clock, log, last, svars>>

\* start_scan(scan_type, states): one INSERT in its own transaction
StartScan(p, scan_type, states) ==
    /\ pc[p] = "idle"
    /\ lock = NoProc
    /\ Len(db.scan_logs) < MaxScans
    /\ db' = [db EXCEPT !.scan_logs = Append(@, NewScanRow(scan_type, states, DatetimeNow))]
    /\ txn' = db'
    /\ UNCHANGED <<lock, pc, call, clock, log, last, svars>>

\* end_scan(scan_id, status, ...): one UPDATE in its own transaction
EndScan(p, scan_id, status, total_found, new_count, updated_count, removed_count, error_message) ==
    /\ pc[p] = "idle"
    /\ lock = NoProc
    /\ db' = [db EXCEPT !.scan_logs =
                 [i \in 1..Len(db.scan_logs) |->
                     IF i = scan_id
                     THEN EndedScanRow(db.scan_logs[i], status, total_found, new_count,
                                       updated_count, removed_count, error_message,
                                       DatetimeNow)
                     ELSE db.scan_logs[i]]]
    /\ txn' = db'
    /\ UNCHANGED <<lock, pc, call, clock, log, last, svars>>

\* at most n calls return in one behaviour
Budget(n) == Len(log) + Cardinality({q \in Procs : pc[q] # "idle"}) < n

\* one caller at a time: a call starts when no other call is in flight
NextSeq(I, P, n) ==
    \/ Tick
    \/ \E p \in P, in \in I : AllIdle /\ Budget(n) /\ RecordIncentive(p, in[1], in[2])
    \/ \E p \in P : SelectExisting(p)
    \/ \E p \in P : InsertIncentive(p)
    \/ \E p \in P : InsertFirstSnapshot(p)
    \/ \E p \in P : UpdateSeen(p)
    \/ \E p \in P : SelectSnapshot(p)
    \/ \E p \in P : RecordChange(p)
    \/ \E p \in P : InsertSnapshot(p)
    \/ \E p \in P : UpdateHash(p)
    \/ \E p \in P : Commit(p)
    \/ \E p \in P : Raise(p)

\* the caller flags entries that are no longer found
MarkOps(P) == \E p \in P, ids \in SUBSET DsireIds : AllIdle /\ MarkInactive(p, ids)

Next == NextSeq(Inputs, {"manual"}, MaxCalls) \/ MarkOps({"manual"})

Spec == Init /\ [][Next]_vars

\* the scan_logs rows one caller opens and closes
ScanOps(P) ==
    \/ \E p \in P : AllIdle /\ StartScan(p, "manual", <<"NY">>)
    \/ \E p \in P, id \in 1..MaxScans :
           AllIdle /\ EndScan(p, id, "completed", 0, 0, 0, 0, SqlNull)

NextScans ==
    \/ NextSeq(ScanInputs, {"manual"}, MaxCalls)
    \/ MarkOps({"manual"})
    \/ ScanOps({"manual"})

SpecScans == Init /\ [][NextScans]_vars

\* the change-detection scenario: three observations of one entry
NextScenario == NextSeq(ScenarioInputs, {"manual"}, ScenarioCalls)

SpecScenario == Init /\ [][NextScenario]_vars

\* a scheduled run and a manual run interleave their statements
NextConc ==
    \/ Tick
    \/ \E p \in Procs, in \in ConcInputs : Budget(MaxCalls) /\ RecordIncentive(p, in[1], in[2])
    \/ \E p \in Procs : SelectExisting(p)
    \/ \E p \in Procs : InsertIncentive(p)
    \/ \E p \in Procs : IntegrityError(p)
    \/ \E p \in Procs : InsertFirstSnapshot(p)
    \/ \E p \in Procs : UpdateSeen(p)
    \/ \E p \in Procs : SelectSnapshot(p)
    \/ \E p \in Procs : RecordChange(p)
    \/ \E p \in Procs : InsertSnapshot(p)
    \/ \E p \in Procs : UpdateHash(p)
    \/ \E p \in Procs : Commit(p)
    \/ \E p \in Procs : Raise(p)
    \/ \E p \in Procs, ids \in SUBSET DsireIds : MarkInactive(p, ids)

SpecConc == Init /\ [][NextConc]_vars

\* the tracker's scan log driven through its public operations: start_scan
\* and end_scan with the arguments the runners pass them
ScanTypes == {"scheduled", "manual", "full"}

LifecycleOps(P) ==
    \/ \E p \in P, scan_type \in ScanTypes, states \in {<<>>, <<"NY">>, <<"NY", "CA">>} :
           StartScan(p, scan_type, states)
    \/ \E p \in P, id \in 1..MaxScans, total_found \in 0..1 :
           EndScan(p, id, "completed", total_found, 0, 0, 0, SqlNull)
    \/ \E p \in P, id \in 1..MaxScans :
           EndScan(p, id, "failed", 0, 0, 0, 0, SqlText("error"))

NextLifecycle == Tick \/ LifecycleOps({"manual"})

SpecLifecycle == Init /\ [][NextLifecycle]_vars

-----------------------------------------------------------------------------
(* The scan runners: scraper/dsire_api/scheduler.py *)

Range(seq) == {seq[i] : i \in 1..Len(seq)}

\* DSIREClient.US_STATES
US_STATES ==
    <<"AL", "AK", "AZ", "AR", "CA", "CO", "CT", "DE", "FL", "GA",
      "HI", "ID", "IL", "IN", "IA", "KS", "KY", "LA", "ME", "MD",
      "MA", "MI", "MN", "MS", "MO", "MT", "NE", "NV", "NH", "NJ",
      "NM", "NY", "NC", "ND", "OH", "OK", "OR", "PA", "RI", "SC",
      "SD", "TN", "TX", "UT", "VT", "VA", "WA", "WV", "WI", "WY",
      "DC", "PR", "VI", "GU", "AS", "MP">>

\* DailyScheduler.STATE_GROUPS, in the order of its keys: northeast, southeast,
\* midwest, southwest, west, south
STATE_GROUPS ==
    <<<<"CT", "ME", "MA", "NH", "RI", "VT", "NJ", "NY", "PA">>,
      <<"DE", "FL", "GA", "MD", "NC", "SC", "VA", "DC", "WV">>,
      <<"IL", "IN", "MI", "OH", "WI", "IA", "KS", "MN", "MO", "NE", "ND", "SD">>,
      <<"AZ", "NM", "OK", "TX">>,
      <<"CO", "ID", "MT", "NV", "UT", "WY", "AK", "CA", "HI", "OR", "WA">>,
      <<"AL", "KY", "MS", "TN", "AR", "LA">>>>

\* DailyScheduler.PRIORITY_STATES
PRIORITY_STATES == <<"NY", "CA", "TX", "FL", "PA", "NJ", "MA", "CT">>

\* datetime.weekday(): 0 is Monday, 6 is Sunday
Weekdays == 0..6

\* `for state in group_states: if state not in states: states.append(state)`
RECURSIVE AppendNew(_, _, _)
AppendNew(states, group_states, i) ==
    IF i > Len(group_states) THEN states
    ELSE AppendNew(IF group_states[i] \notin Range(states)
                   THEN Append(states, group_states[i]) ELSE states,
                   group_states, i + 1)

\* faulty variant: the group is appended without the membership test
GetStatesForTodayNoDedup(day_of_week, scan_all_states) ==
    IF day_of_week = 6 \/ scan_all_states
    THEN US_STATES
    ELSE PRIORITY_STATES \o STATE_GROUPS[(day_of_week % Len(STATE_GROUPS)) + 1]

\* DailyScheduler._get_states_for_today, for today's weekday and the
\* scan_all_states setting
GetStatesForToday(day_of_week, scan_all_states) ==
    IF day_of_week = 6 \/ scan_all_states
    THEN US_STATES
    ELSE AppendNew(PRIORITY_STATES,
                   STATE_GROUPS[(day_of_week % Len(STATE_GROUPS)) + 1], 1)

\* programs as the client returns them
ProgA == <<<<"id", "'A'">>, <<"name", "'X'">>, <<"incentive_amount", "'$100'">>>>
ProgA200 == <<<<"id", "'A'">>, <<"name", "'X'">>, <<"incentive_amount", "'$200'">>>>
ProgB == <<<<"id", "'B'">>, <<"name", "'X'">>, <<"incentive_amount", "'$100'">>>>
ProgNoId == <<<<"name", "'X'">>>>

\* what get_programs_by_state may return for a scope
Upstream ==
    [state \in Range(US_STATES) |->
        CASE state = "NY" -> {<<>>, <<ProgA>>, <<ProgA200>>}
          [] state = "CA" -> {<<ProgNoId>>}
          [] state = "TX" -> {<<ProgB>>}
          [] OTHER -> {<<>>}]

\* an upstream with no programs
QuietUpstream == [state \in Range(US_STATES) |-> {<<>>}]

\* the scopes whose fetch may raise
FailScopes == {"NY", "CA", "TX"}

\* the scope list a manual run is given
ManualStates == <<"NY", "CA", "TX">>

\* the rows _record_changes inserts, in the order of tracked_fields
ChangeRows(incentive_id, old_data, new_data) ==
    LET fs == SelectSeq(tracked_fields, LAMBDA f : FieldChanged(old_data, new_data, f))
    IN  [k \in 1..Len(fs) |->
            ChangeRow(incentive_id, fs[k], ChangeValue(old_data, fs[k]),
                      ChangeValue(new_data, fs[k]))]

\* record_incentive(dsire_id, data) run to its return on content d, with no
\* other connection writing: the content it commits and the pair it returns,
\* for each snapshot the SELECT ... ORDER BY scraped_at DESC LIMIT 1 may give
Recorded(d, dsire_id, data) ==
    LET data_hash == ComputeHash(data)
        id == ExistingId(d.incentives, dsire_id)
        new_id == Len(d.incentives) + 1
        seen == [d EXCEPT !.incentives[id] = SeenRow(@, DatetimeNow)]
    IN  IF id = 0
        THEN {[db |-> [d EXCEPT
                         !.incentives =
                             Append(@, NewIncentiveRow(dsire_id, data, data_hash, DatetimeNow)),
                         !.snapshots = Append(@, SnapshotRow(new_id, data, data_hash))],
               ret |-> <<TRUE, FALSE>>]}
        ELSE IF HashChanged(d.incentives[id].data_hash, data_hash)
        THEN {[db |-> [seen EXCEPT
                         !.changes = @ \o ChangeRows(id, JsonLoads(d.snapshots[i].data_json), data),
                         !.snapshots = Append(@, SnapshotRow(id, data, data_hash)),
                         !.incentives[id] = HashRow(@, data_hash, DatetimeNow)],
               ret |-> <<FALSE, TRUE>>] : i \in LatestSnapshots(d.snapshots, id)}
        ELSE {[db |-> seen, ret |-> <<FALSE, FALSE>>]}

\* the content after record_incentive("A", ProgA) on an empty database
TrackedDb == (CHOOSE r \in Recorded(EmptyDb, "A", ProgA) : TRUE).db

\* a scheduled run and a manual run observe A, which is already tracked, and
\* interleave the statements of their record_incentive calls
InitRace ==
    /\ clock = 0
    /\ db = TrackedDb
    /\ txn = TrackedDb
    /\ lock = NoProc
    /\ pc = [p \in Procs |-> "idle"]
    /\ call = [p \in Procs |-> NoCall]
    /\ log = <<>>
    /\ last = NoLast
    /\ run = NoRun
    /\ job = NoJob
    /\ client = NewClient
    /\ sched = NoSched

NextRace ==
    \/ \E p \in Procs, data \in {ProgA, ProgA200} :
           Budget(MaxCalls) /\ RecordIncentive(p, "A", data)
    \/ \E p \in Procs : SelectExisting(p)
    \/ \E p \in Procs : UpdateSeen(p)
    \/ \E p \in Procs : SelectSnapshot(p)
    \/ \E p \in Procs : RecordChange(p)
    \/ \E p \in Procs : InsertSnapshot(p)
    \/ \E p \in Procs : UpdateHash(p)
    \/ \E p \in Procs : Commit(p)
    \/ \E p \in Procs : Raise(p)

SpecRace == InitRace /\ [][NextRace]_vars

\* datetime.now().isoformat() at clock t, written T0, T1, ...
IsoFormat(t) == CASE t = 0 -> "'T0'" [] t = 1 -> "'T1'" [] t = 2 -> "'T2'" [] OTHER -> "'T3'"

\* the entry _scrape_state_programs builds for program A of NY when called at t
ProgScraped(t) ==
    <<<<"id", "'A'">>, <<"name", "'X'">>,
      <<"url", "'https://programs.dsireusa.org/system/program/detail/A'">>,
      <<"state", "'NY'">>, <<"scraped_at", IsoFormat(t)>>>>

\* an upstream catalog that never changes: NY lists the one program A, which
\* the structured endpoint returns as it is and the listing page as an entry
\* stamped by the scrape
CatalogUpstream ==
    [state \in Range(US_STATES) |->
        IF state = "NY" THEN {<<ProgA>>, <<ProgScraped(DatetimeNow)>>} ELSE {<<>>}]

\* the content after an earlier scan recorded A from the listing page
StampedDb == (CHOOSE r \in Recorded(EmptyDb, "A", ProgScraped(DatetimeNow)) : TRUE).db

MaxObserved == 3       \* record_incentive calls before the windowed queries
MaxDays == 2           \* days that pass in one behaviour

\* one day passes
DayPasses ==
    /\ clock < MaxDays
    /\ clock' = clock + 1
    /\ UNCHANGED <<db, txn, lock, pc, call, log, last, svars>>

\* a call of record_incentive by the one caller, from start to return
Observe ==
    /\ Len(log) < MaxObserved
    /\ \E in \in {<<"A", ProgA>>, <<"A", ProgA200>>, <<"B", ProgB>>} :
       \E r \in Recorded(db, in[1], in[2]) :
           /\ db' = r.db
           /\ txn' = r.db
           /\ log' = Append(log, [dsire_id |-> in[1], at |-> clock, ret |-> r.ret])
    /\ last' = NoLast
    /\ UNCHANGED <<lock, pc, call, clock, svars>>

\* get_new_incentives(days=n): since = datetime.now() - timedelta(days=n)
GetNew ==
    \E days \in 0..MaxDays :
        /\ last' = [ret |-> GetNewIncentives(db, DatetimeNow - days),
                    stage |-> "get_new_incentives", discarded |-> 0,
                    days |-> days, at |-> DatetimeNow]
        /\ UNCHANGED <<db, txn, lock, pc, call, clock, log, svars>>

NextWindow == DayPasses \/ Observe \/ GetNew

SpecWindow == Init /\ [][NextWindow]_vars

MaxCallbacks == 2      \* callbacks registered with add_callback

RunIdle == run.pc \in {"idle", "returned", "raised"}

TrackerIdle == AllIdle /\ lock = NoProc

\* the run writes `content` in a transaction of its own and goes on as r
RunStep(content, r) ==
    /\ db' = content
    /\ txn' = content
    /\ run' = r
    /\ UNCHANGED <<lock, pc, call, clock, log, last, job, client, sched>>

\* the scope the loop is at
Scope == run.states[run.idx]

\* the dsire_ids of the active incentives
ActiveIds(d) == {d.incentives[i].dsire_id : i \in GetAllIncentives(d, "", TRUE)}

\* run_scan(states, scan_type) / scan_states(states): the scope list is fixed
\* (`states or self._get_states_for_today()`), start_scan inserts the row
StartRun(path, scan_type, states, day, scan_all) ==
    LET chosen == IF states # <<>> THEN states ELSE GetStatesForToday(day, scan_all)
    IN  /\ RunIdle /\ TrackerIdle
        /\ Len(db.scan_logs) < MaxScans
        /\ RunStep([db EXCEPT !.scan_logs =
                        Append(@, NewScanRow(scan_type, chosen, DatetimeNow))],
                   [NoRun EXCEPT !.pc = "scan", !.path = path, !.scan_type = scan_type,
                                 !.requested = states,
                                 !.states = chosen, !.rotation = (states = <<>>),
                                 !.day = day, !.scan_all = scan_all,
                                 !.scan_id = Len(db.scan_logs) + 1,
                                 !.active_before = ActiveIds(db)])

\* start_scan raises: nothing is written and the exception leaves the runner
StartRunRaises(path, scan_type) ==
    /\ RunIdle /\ TrackerIdle
    /\ RunStep(db, [NoRun EXCEPT !.pc = "raised", !.path = path, !.scan_type = scan_type,
                                 !.error = "error"])

\* scan_states: progress_callback, called outside the try block, raises
ProgressRaises ==
    /\ run.pc = "scan" /\ run.path = "scan_states"
    /\ run.idx <= Len(run.states)
    /\ RunStep(db, [run EXCEPT !.pc = "raised", !.error = "error"])

\* programs = self.client.get_programs_by_state(state)
Fetch(U) ==
    /\ run.pc = "scan"
    /\ run.idx <= Len(run.states)
    /\ \E programs \in U[Scope] :
           RunStep(db, [run EXCEPT !.pc = "programs", !.programs = programs,
                                   !.fetched = Append(@, [programs |-> programs,
                                                          raised |-> FALSE])])

\* faulty variant: the exception is reported and ends the loop
FetchRaisesBreaks(F) ==
    /\ run.pc = "scan"
    /\ run.idx <= Len(run.states)
    /\ Scope \in F
    /\ RunStep(db, [run EXCEPT !.idx = Len(run.states) + 1,
                               !.errors = Append(@, Scope),
                               !.fetched = Append(@, [programs |-> <<>>, raised |-> TRUE])])

\* the fetch raises: `except Exception as e: results['errors'].append(...)`
FetchRaises(F) ==
    /\ run.pc = "scan"
    /\ run.idx <= Len(run.states)
    /\ Scope \in F
    /\ RunStep(db, [run EXCEPT !.idx = @ + 1,
                               !.errors = Append(@, Scope),
                               !.fetched = Append(@, [programs |-> <<>>, raised |-> TRUE])])

\* dsire_id = str(program.get('id', ''))
ProgramId(program) == Str(Get(program, "id", "''"))

\* one turn of `for program in programs`: a program without id is skipped,
\* any other is handed to record_incentive and counted
RecordProgram ==
    /\ run.pc = "programs" /\ run.programs # <<>>
    /\ TrackerIdle
    /\ LET program == Head(run.programs)
           dsire_id == ProgramId(program)
       IN  IF dsire_id = ""
           THEN RunStep(db, [run EXCEPT !.programs = Tail(@)])
           ELSE \E r \in Recorded(db, dsire_id, program) :
                    RunStep(r.db,
                        [run EXCEPT
                            !.programs = Tail(@),
                            !.all_found_ids = @ \cup {dsire_id},
                            !.new_incentives = IF r.ret[1] THEN Append(@, dsire_id) ELSE @,
                            !.updated_incentives = IF r.ret[2] THEN Append(@, dsire_id) ELSE @,
                            !.total_found = @ + 1,
                            !.recorded = Append(@, <<run.idx, dsire_id>>),
                            !.returns = Append(@, r.ret)])

\* record_incentive raises (and has rolled back): the rest of the scope is dropped
RecordRaises ==
    /\ run.pc = "programs" /\ run.programs # <<>>
    /\ ProgramId(Head(run.programs)) # ""
    /\ RunStep(db, [run EXCEPT !.pc = "scan", !.idx = @ + 1, !.programs = <<>>,
                               !.all_found_ids = @ \cup {ProgramId(Head(run.programs))},
                               !.errors = Append(@, Scope),
                               !.fetched[run.idx].raised = TRUE])

\* the scope's programs are done
NextScope ==
    /\ run.pc = "programs" /\ run.programs = <<>>
    /\ RunStep(db, [run EXCEPT !.pc = "scan", !.idx = @ + 1])

\* faulty variant: the counts of new and updated incentives change places
ClosedScanSwapped(status, error_message) ==
    [db EXCEPT !.scan_logs[run.scan_id] =
        EndedScanRow(@, status, run.total_found, Len(run.updated_incentives),
                     Len(run.new_incentives), 0, error_message, DatetimeNow)]

\* the scan_logs table with row scan_id closed by end_scan
ClosedScan(status, error_message) ==
    [db EXCEPT !.scan_logs[run.scan_id] =
        EndedScanRow(@, status, run.total_found, Len(run.new_incentives),
                     Len(run.updated_incentives), 0, error_message, DatetimeNow)]

\* faulty variant: notify after every completed run
ShouldNotifyAlways(new_incentives, updated_incentives) == TRUE

\* `if results['new_incentives'] or results['updated_incentives']`
ShouldNotify(new_incentives, updated_incentives) ==
    new_incentives # <<>> \/ updated_incentives # <<>>

\* after the loop: end_scan(scan_id, status='completed', ...); n callbacks
\* are registered at this moment
CloseCompleted ==
    /\ run.pc = "scan" /\ run.idx > Len(run.states)
    /\ TrackerIdle
    /\ \E n \in 0..MaxCallbacks :
           RunStep(ClosedScan("completed", SqlNull),
                   [run EXCEPT !.status = "completed", !.callbacks = n,
                               !.pc = IF /\ run.path = "run_scan"
                                         /\ ShouldNotify(run.new_incentives,
                                                         run.updated_incentives)
                                      THEN "notify" ELSE "returned"])

\* end_scan(status='completed') raises and is rolled back: run_scan goes to its
\* `except Exception` block, scan_states has none and lets the exception out
CloseRaises ==
    /\ run.pc = "scan" /\ run.idx > Len(run.states)
    /\ \E n \in 0..MaxCallbacks :
           RunStep(db, [run EXCEPT !.error = "error", !.callbacks = n,
                                   !.pc = IF run.path = "run_scan"
                                          THEN "handler" ELSE "raised"])

\* _notify_callbacks: the next callback is called; what it raises is logged
InvokeCallback ==
    /\ run.pc = "notify" /\ Len(run.invoked) < run.callbacks
    /\ \E raises \in BOOLEAN :
           RunStep(db, [run EXCEPT !.invoked =
                            Append(@, [callback |-> Len(run.invoked) + 1,
                                       raised |-> raises,
                                       status |-> db.scan_logs[run.scan_id].status])])

\* _send_notifications: the webhook POST, if one is configured, is sent or
\* fails; a failure is logged. run_scan returns its results.
SendNotifications ==
    /\ run.pc = "notify" /\ Len(run.invoked) = run.callbacks
    /\ \E outcome \in {"unset", "sent", "failed"} :
           RunStep(db, [run EXCEPT !.pc = "returned", !.webhook = outcome])

\* run_scan's `except Exception`: end_scan(scan_id, status='failed', error_message)
HandleFailure ==
    /\ run.pc = "handler"
    /\ TrackerIdle
    /\ RunStep([db EXCEPT !.scan_logs[run.scan_id] =
                    EndedScanRow(@, "failed", 0, 0, 0, 0, SqlText(run.error), DatetimeNow)],
               [run EXCEPT !.pc = "returned", !.status = "failed"])

\* that end_scan raises as well: the exception leaves run_scan
HandleFailureRaises ==
    /\ run.pc = "handler"
    /\ RunStep(db, [run EXCEPT !.pc = "raised"])

\* the steps of a run once it is started
RunSteps(U, F) ==
    \/ ProgressRaises
    \/ Fetch(U)
    \/ FetchRaises(F)
    \/ RecordProgram
    \/ RecordRaises
    \/ NextScope
    \/ CloseCompleted
    \/ CloseRaises
    \/ InvokeCallback
    \/ SendNotifications
    \/ HandleFailure
    \/ HandleFailureRaises

\* a database that is empty or already tracks A
InitRuns ==
    /\ clock = 0
    /\ db \in {EmptyDb, TrackedDb}
    /\ txn = db
    /\ lock = NoProc
    /\ pc = [p \in Procs |-> "idle"]
    /\ call = [p \in Procs |-> NoCall]
    /\ log = <<>>
    /\ last = NoLast
    /\ run = NoRun
    /\ job = NoJob
    /\ client = NewClient
    /\ sched = NoSched

\* manual runs: run_now(states), run_full_scan(), ScanRunner.scan_states(states)
NextRuns ==
    \/ StartRun("run_scan", "manual", ManualStates, 0, FALSE)
    \/ StartRun("run_scan", "full", US_STATES, 0, FALSE)
    \/ StartRun("scan_states", "manual", ManualStates, 0, FALSE)
    \/ RunSteps(Upstream, FailScopes)

SpecRuns == InitRuns /\ [][NextRuns]_vars

\* immediate runs on any day of the week: run_now(states) with an empty, a
\* one-scope and a three-scope list, and run_full_scan(); the upstream is quiet
NextNow ==
    \/ \E states \in {<<>>, <<"NY">>, ManualStates}, day \in Weekdays :
           StartRun("run_scan", "manual", states, day, FALSE)
    \/ \E day \in Weekdays : StartRun("run_scan", "full", US_STATES, day, FALSE)
    \/ Fetch(QuietUpstream)
    \/ NextScope
    \/ CloseCompleted

SpecNow == InitRuns /\ [][NextNow]_vars

\* the database after a first scan of NY, by either strategy
InitStable ==
    /\ clock = 0
    /\ db \in {TrackedDb, StampedDb}
    /\ txn = db
    /\ lock = NoProc
    /\ pc = [p \in Procs |-> "idle"]
    /\ call = [p \in Procs |-> NoCall]
    /\ log = <<>>
    /\ last = NoLast
    /\ run = NoRun
    /\ job = NoJob
    /\ client = NewClient
    /\ sched = NoSched

\* time passes, and ScanRunner.scan_states scans NY and CA again
NextStable ==
    \/ Tick
    \/ StartRun("scan_states", "manual", <<"NY", "CA">>, 0, FALSE)
    \/ Fetch(CatalogUpstream)
    \/ RecordProgram
    \/ NextScope
    \/ CloseCompleted

SpecStable == InitStable /\ [][NextStable]_vars

\* scheduled runs: run_scan() picks today's scopes; the upstream is quiet
NextRotation ==
    \/ \E day \in Weekdays, scan_all \in BOOLEAN :
           StartRun("run_scan", "scheduled", <<>>, day, scan_all)
    \/ Fetch(QuietUpstream)
    \/ NextScope
    \/ CloseCompleted

SpecRotation == InitRuns /\ [][NextRotation]_vars

MaxRetries == 2        \* the largest configured max_retries

\* default_config['retry_delay'], in seconds
retry_delay == 300

\* the job changes its position and clears the finished run
JobStep(j, r) ==
    /\ job' = j
    /\ run' = r
    /\ UNCHANGED <<db, txn, lock, pc, call, clock, log, last, client, sched>>

\* the scheduled time has come: _scheduled_job enters its try block
JobBegin ==
    /\ job.pc = "idle"
    /\ JobStep([job EXCEPT !.pc = "first"], NoRun)

\* the scan type of the call the job is about to make
JobScanType == IF job.pc = "first" THEN "scheduled" ELSE "retry"

JobCalling == job.pc \in {"first", "retry"}

\* self.run_scan(scan_type='scheduled') or self.run_scan(scan_type='retry')
JobRun ==
    /\ JobCalling /\ run.pc = "idle"
    /\ \E day \in Weekdays, scan_all \in BOOLEAN :
           StartRun("run_scan", JobScanType, <<>>, day, scan_all)

\* the same call, with start_scan raising
JobRunRaises ==
    /\ JobCalling /\ run.pc = "idle"
    /\ StartRunRaises("run_scan", JobScanType)

\* run_scan returned: after the first call _last_scan_date is set, after a
\* retry the loop is left with break; the job returns
JobReturned ==
    /\ JobCalling /\ run.pc = "returned"
    /\ JobStep([job EXCEPT !.pc = "done",
                           !.outcomes = Append(@, "returned"),
                           !.last_scan_date = (job.pc = "first")], run)

\* run_scan raised: `except Exception`, logged; the retry loop begins or goes on
JobCaught ==
    /\ JobCalling /\ run.pc = "raised"
    /\ JobStep([job EXCEPT !.pc = "loop", !.outcomes = Append(@, "raised")], run)

\* faulty variant: one attempt more than configured
RetryAllowedOneMore(attempt, retries) == attempt <= retries

\* `for attempt in range(retries)`: is there another turn
RetryAllowed(attempt, retries) == attempt < retries

\* one turn of the loop up to the call: time.sleep(retry_delay)
JobSleep ==
    /\ job.pc = "loop" /\ RetryAllowed(job.attempt, job.max_retries)
    /\ JobStep([job EXCEPT !.pc = "retry", !.attempt = @ + 1,
                           !.slept = Append(@, retry_delay)], NoRun)

\* the loop is exhausted: the job returns
JobExhausted ==
    /\ job.pc = "loop" /\ ~RetryAllowed(job.attempt, job.max_retries)
    /\ JobStep([job EXCEPT !.pc = "done"], run)

\* one scheduled job with max_retries as configured
InitJob ==
    /\ clock = 0
    /\ db \in {EmptyDb, TrackedDb}
    /\ txn = db
    /\ lock = NoProc
    /\ pc = [p \in Procs |-> "idle"]
    /\ call = [p \in Procs |-> NoCall]
    /\ log = <<>>
    /\ last = NoLast
    /\ run = NoRun
    /\ job \in {[NoJob EXCEPT !.max_retries = m] : m \in 0..MaxRetries}
    /\ client = NewClient
    /\ sched = NoSched

NextJob ==
    \/ JobBegin
    \/ JobRun
    \/ JobRunRaises
    \/ Fetch(QuietUpstream)
    \/ NextScope
    \/ CloseCompleted
    \/ CloseRaises
    \/ HandleFailure
    \/ HandleFailureRaises
    \/ JobReturned
    \/ JobCaught
    \/ JobSleep
    \/ JobExhausted

SpecJob == InitJob /\ [][NextJob]_vars

-----------------------------------------------------------------------------
(* The source client: scraper/dsire_api/client.py *)

MaxDelay == 2          \* the largest configured rate_limit_delay, in ticks
MaxTime == 5           \* time.time() stops here
MaxRequests == 3       \* network calls issued in one behaviour

ClientStep(c) ==
    /\ client' = c
    /\ UNCHANGED <<db, txn, lock, pc, call, clock, log, last, run, job, sched>>

\* time passes: between two operations, or while a response is awaited
ClientTick ==
    /\ client.now < MaxTime
    /\ ClientStep([client EXCEPT !.now = @ + 1])

\* _rate_limit: the time at which it returns
RateLimited(now, last_request_time, rate_limit_delay) ==
    LET elapsed == now - last_request_time
    IN  IF elapsed < rate_limit_delay THEN now + (rate_limit_delay - elapsed) ELSE now

\* _make_request, called by get_programs_by_state, get_program_details,
\* search_programs and get_federal_programs: _rate_limit(), then the call
MakeRequest ==
    /\ client.pc = "idle"
    /\ Len(client.requests) < MaxRequests
    /\ LET at == RateLimited(client.now, client.last_request_time, client.rate_limit_delay)
       IN  /\ at <= MaxTime
           /\ ClientStep([client EXCEPT
                             !.now = at,
                             !.last_request_time = at,
                             !.requests = Append(@, [at |-> at, by |-> "_make_request"])])

\* check_api_status, first probe: self.session.get(API_BASE/programs)
CheckApi ==
    /\ client.pc = "idle"
    /\ Len(client.requests) < MaxRequests
    /\ ClientStep([client EXCEPT
                      !.pc = "website",
                      !.requests = Append(@, [at |-> client.now, by |-> "check_api_status"])])

\* check_api_status, second probe: self.session.get(BASE_URL/system/program/ny)
CheckWebsite ==
    /\ client.pc = "website"
    /\ ClientStep([client EXCEPT
                      !.pc = "idle",
                      !.requests = Append(@, [at |-> client.now, by |-> "check_api_status"])])

\* a client constructed with rate_limit_delay d, long after the epoch
InitClient ==
    /\ clock = 0
    /\ db = EmptyDb
    /\ txn = db
    /\ lock = NoProc
    /\ pc = [p \in Procs |-> "idle"]
    /\ call = [p \in Procs |-> NoCall]
    /\ log = <<>>
    /\ last = NoLast
    /\ run = NoRun
    /\ job = NoJob
    /\ client \in {[NewClient EXCEPT !.rate_limit_delay = d, !.now = d] : d \in 1..MaxDelay}
    /\ sched = NoSched

NextClient ==
    \/ ClientTick
    \/ MakeRequest
    \/ CheckApi
    \/ CheckWebsite

SpecClient == InitClient /\ [][NextClient]_vars

\* what _make_request catches and turns into None: requests.exceptions.Timeout,
\* HTTPError (raise_for_status) and any other RequestException
NetworkFailures == {"timeout", "http_error", "connection_error"}

\* what the structured endpoint can answer: nothing, a JSON list, a JSON object
\* with the list under 'programs' or 'data', another JSON value, a JSON object
\* whose 'programs' is null, or a body that is not JSON
ApiOutcomes ==
    NetworkFailures \cup
        {"json_list", "json_programs", "json_data", "json_other", "json_programs_null", "not_json"}

\* what the listing page can answer: nothing, a page with the link of program A,
\* or a page without program links
PageOutcomes == NetworkFailures \cup {"html_links", "html_empty"}

\* the fallback is taken only after a failed request; a body that is not JSON
\* ends the call with an empty list
NeedsScrapeOnFailure(outcome) == outcome \in NetworkFailures

\* get_programs_by_state leaves the try block for the fallback: _make_request
\* returned None, or response.json() raised ValueError
NeedsScrape(outcome) == outcome \in NetworkFailures \/ outcome = "not_json"

\* the list the try block returns for a parseable body
ApiPrograms(outcome) ==
    IF outcome \in {"json_list", "json_programs", "json_data"} THEN <<ProgA>> ELSE <<>>

\* the list _scrape_state_programs returns
PagePrograms(outcome) ==
    IF outcome = "html_links" THEN <<ProgScraped(DatetimeNow)>> ELSE <<>>

\* one network call of get_programs_by_state through _make_request
FetchRequest(url, outcome) ==
    LET at == RateLimited(client.now, client.last_request_time, client.rate_limit_delay)
    IN  [client EXCEPT
            !.now = at,
            !.last_request_time = at,
            !.requests = Append(@, [at |-> at, by |-> "_make_request", call |-> Len(log) + 1,
                                    url |-> url, outcome |-> outcome])]

\* get_programs_by_state returns ret, or raises
FetchReturn(c, ret, raised) ==
    /\ client' = [c EXCEPT !.pc = "idle"]
    /\ log' = Append(log, [ret |-> ret, raised |-> raised])
    /\ UNCHANGED <<db, txn, lock, pc, call, clock, last, run, job, sched>>

\* get_programs_by_state: response = self._make_request(api_url, params=params)
GetProgramsByState ==
    /\ client.pc = "idle"
    /\ Len(client.requests) + 2 <= MaxRequests
    /\ \E outcome \in ApiOutcomes :
           ClientStep([FetchRequest("api", outcome) EXCEPT !.pc = "api"])

\* get_programs_by_state: the try block around response.json(); len(None)
\* raises TypeError, which `except ValueError` lets through
ParseResponse ==
    /\ client.pc = "api"
    /\ LET outcome == client.requests[Len(client.requests)].outcome
       IN  IF NeedsScrape(outcome)
           THEN ClientStep([client EXCEPT !.pc = "scrape"])
           ELSE FetchReturn(client, ApiPrograms(outcome), outcome = "json_programs_null")

\* get_programs_by_state: programs = self._scrape_state_programs(state_code)
ScrapeStatePrograms ==
    /\ client.pc = "scrape"
    /\ \E outcome \in PageOutcomes :
           FetchReturn(FetchRequest("scrape", outcome), PagePrograms(outcome), FALSE)

NextFetch ==
    \/ ClientTick
    \/ GetProgramsByState
    \/ ParseResponse
    \/ ScrapeStatePrograms

SpecFetch == InitClient /\ [][NextFetch]_vars

-----------------------------------------------------------------------------
(* The scheduler's polling loop: DailyScheduler.start, _run_loop, stop *)

SchedStep(d) ==
    /\ sched' = d
    /\ UNCHANGED <<db, txn, lock, pc, call, clock, log, last, run, job, client>>

\* the polling loops that have not left _run_loop
ActiveLoops == {t \in Threads : sched.loops[t] \notin {"none", "exited"}}

\* start(blocking): returns at once when _running is set; otherwise registers
\* the daily trigger, sets _running and enters _run_loop, on the caller's
\* thread (self._thread is left as it is) or on a new thread kept in
\* self._thread
Start(blocking) ==
    /\ sched.caller = "idle"
    /\ sched.starts < MaxStarts
    /\ IF sched.running
       THEN SchedStep([sched EXCEPT !.starts = @ + 1])
       ELSE \E t \in Threads :
                /\ sched.loops[t] = "none"
                /\ \A u \in Threads : u < t => sched.loops[u] # "none"
                /\ SchedStep([sched EXCEPT
                                 !.starts = @ + 1,
                                 !.triggers = @ + 1,
                                 !.running = TRUE,
                                 !.stopped = FALSE,
                                 !.thread = IF blocking THEN @ ELSE t,
                                 !.loops[t] = "test"])

\* _run_loop: while self._running
LoopTest(t) ==
    /\ sched.loops[t] = "test"
    /\ SchedStep([sched EXCEPT !.loops[t] = IF sched.running THEN "poll" ELSE "exited"])

\* _run_loop: schedule.run_pending() collects the registered jobs that are due;
\* a job stays due until its function has returned
LoopPoll(t) ==
    /\ sched.loops[t] = "poll"
    /\ \E due \in BOOLEAN :
           /\ due => Len(sched.begun) < MaxJobs
           /\ SchedStep([sched EXCEPT
                            !.loops[t] = IF due /\ sched.triggers > 0 THEN "run" ELSE "sleep"])

\* _run_loop: run_pending calls the job it collected: _scheduled_job begins
LoopRun(t) ==
    /\ sched.loops[t] = "run"
    /\ SchedStep([sched EXCEPT
                     !.loops[t] = "job",
                     !.begun = Append(@, [thread |-> t, after_stop |-> sched.stopped,
                                          beside |-> {u \in Threads : sched.loops[u] = "job"}])])

\* _scheduled_job returns into run_pending, which returns into _run_loop
LoopJobDone(t) ==
    /\ sched.loops[t] = "job"
    /\ SchedStep([sched EXCEPT !.loops[t] = "sleep"])

\* _run_loop: time.sleep(60) returns
LoopWake(t) ==
    /\ sched.loops[t] = "sleep"
    /\ SchedStep([sched EXCEPT !.loops[t] = "test"])

\* stop: self._running = False; schedule.clear(); then join if self._thread
Stop ==
    /\ sched.caller = "idle"
    /\ SchedStep([sched EXCEPT
                     !.running = FALSE,
                     !.triggers = 0,
                     !.caller = IF sched.thread # 0 THEN "join" ELSE "idle",
                     !.stopped = (sched.thread = 0)])

\* stop: self._thread.join(timeout=5) returns, the thread has exited or not
Joined ==
    /\ sched.caller = "join"
    /\ SchedStep([sched EXCEPT !.caller = "idle", !.stopped = TRUE])

NextSched ==
    \/ \E blocking \in BOOLEAN : Start(blocking)
    \/ Stop
    \/ Joined
    \/ \E t \in Threads :
           \/ LoopTest(t)
           \/ LoopPoll(t)
           \/ LoopRun(t)
           \/ LoopJobDone(t)
           \/ LoopWake(t)

SpecSched == Init /\ [][NextSched]_vars

-----------------------------------------------------------------------------
(* Properties *)

\* the incentives row of a dsire_id in the committed content
Entity(dsire_id) == db.incentives[ExistingId(db.incentives, dsire_id)]

Tracked(dsire_id) == ExistingId(db.incentives, dsire_id) # 0

\* the value a payload gives a field: <<v>>, or <<>> when the key is absent
RawValue(d, field) == IF HasKey(d, field) THEN <<Get(d, field, PyNone)>> ELSE <<>>

\* the rows among `written` that are about one field
RowsFor(written, field) == {w \in 1..Len(written) : written[w].field_name = field}

SameObservation(a, b) == a.dsire_id = b.dsire_id /\ a.data = b.data

\* C1: idempotence. When two calls of record_incentive return one after the other
\* with the same dsire_id and the identical payload, the second returns
\* (False, False) and leaves the entity's snapshots and change rows as the first
\* left them; if the first met an untracked dsire_id it returned (True, False),
\* and afterwards the entity has exactly one snapshot and no change row.
C1_Idempotent ==
    \A i \in 1..(Len(log) - 1) :
        SameObservation(log[i], log[i + 1]) =>
            /\ log[i + 1].ret = <<FALSE, FALSE>>
            /\ log[i + 1].written = <<>>
            /\ log[i + 1].snapshots = log[i].snapshots
            /\ log[i + 1].changes = log[i].changes
            /\ ~log[i].found =>
                  /\ log[i].ret = <<TRUE, FALSE>>
                  /\ log[i + 1].snapshots = 1
                  /\ log[i + 1].changes = 0

C1_Witness ==
    \E i \in 1..(Len(log) - 1) :
        /\ SameObservation(log[i], log[i + 1])
        /\ ~log[i].found
        /\ log[i + 1].found

\* the first three calls that returned are: an untracked "A" recorded with
\* first, then observed twice with second
Scenario(first, second) ==
    /\ Len(log) >= 3
    /\ \A i \in 1..3 : log[i].dsire_id = "A"
    /\ ~log[1].found
    /\ log[1].data = first
    /\ log[2].data = second
    /\ log[3].data = second

ScenarioReturns ==
    /\ log[1].ret = <<TRUE, FALSE>>
    /\ log[2].ret = <<FALSE, TRUE>>
    /\ log[3].ret = <<FALSE, FALSE>>

\* C2 as stated: recorded with {name: X, amount: $100}, then observed twice with
\* {name: X, amount: $200}, the calls return (True, False), (False, True),
\* (False, False), the second writes exactly one change row (amount, $100, $200),
\* and get_incentive_history then returns exactly one row.
C2_Original ==
    Scenario(NameAmount100, NameAmount200) =>
        /\ ScenarioReturns
        /\ Len(log[2].written) = 1
        /\ log[2].written[1].field_name = "amount"
        /\ log[2].written[1].old_value = SqlText("$100")
        /\ log[2].written[1].new_value = SqlText("$200")
        /\ log[3].changes = 1

\* C2 amended: with the amount under the tracked key incentive_amount the three
\* calls return (True, False), (False, True), (False, False), the second writes
\* exactly one change row (incentive_amount, $100, $200) and get_incentive_history
\* then returns exactly one row; with the key amount, which is not a tracked
\* field, the calls return the same but no change row is written and
\* get_incentive_history returns no row.
C2_Amended ==
    /\ Scenario(Tracked100, Tracked200) =>
          /\ ScenarioReturns
          /\ Len(log[2].written) = 1
          /\ log[2].written[1].field_name = "incentive_amount"
          /\ log[2].written[1].old_value = SqlText("$100")
          /\ log[2].written[1].new_value = SqlText("$200")
          /\ log[3].written = <<>>
          /\ log[3].changes = 1
    /\ Scenario(NameAmount100, NameAmount200) =>
          /\ ScenarioReturns
          /\ log[2].written = <<>>
          /\ log[3].changes = 0

C2_Witness == Scenario(Tracked100, Tracked200) /\ log[3].changes = 1

\* C3 as stated: a call that returns (False, True) writes exactly one change row
\* for each tracked field whose value differs between the payload of the snapshot
\* written last for the entity and the new payload, and none for the others.
C3_Original ==
    \A i \in 1..Len(log) :
        log[i].ret = <<FALSE, TRUE>> =>
            \A k \in 1..Len(tracked_fields) :
                Cardinality(RowsFor(log[i].written, tracked_fields[k])) =
                    IF RawValue(log[i].prev_data, tracked_fields[k])
                         # RawValue(log[i].data, tracked_fields[k])
                    THEN 1 ELSE 0

\* C4: no two rows of incentives, committed or written in an open transaction,
\* have the same dsire_id.
C4_Unique ==
    /\ \A i, j \in 1..Len(db.incentives) :
          db.incentives[i].dsire_id = db.incentives[j].dsire_id => i = j
    /\ \A i, j \in 1..Len(txn.incentives) :
          txn.incentives[i].dsire_id = txn.incentives[j].dsire_id => i = j

\* two interleaved calls both found the dsire_id untracked; the second INSERT failed
C4_Witness ==
    /\ last.ret = Raised("IntegrityError")
    /\ \E i \in 1..Len(db.incentives) : db.incentives[i].dsire_id = "A"

\* C5: in the committed content every incentive has a snapshot, and the snapshot
\* written last for it carries the incentive's data_hash and a scraped_at that
\* no other snapshot of the incentive exceeds.
C5_HashMatchesLatest ==
    \A i \in 1..Len(db.incentives) :
        LET S == SnapshotsOf(db.snapshots, i)
        IN  /\ S # {}
            /\ db.snapshots[Max(S)].data_hash = db.incentives[i].data_hash
            /\ Max(S) \in LatestSnapshots(db.snapshots, i)

C5_Witness ==
    \E i \in 1..Len(db.incentives) :
        LET S == SnapshotsOf(db.snapshots, i)
        IN  /\ Cardinality(S) >= 2
            /\ \E a, b \in S : db.snapshots[a].data_hash # db.snapshots[b].data_hash
            /\ ~db.incentives[i].is_active

\* C6 as stated: of two snapshots of one incentive the one written later has a
\* strictly later scraped_at.
C6_Original ==
    \A i, j \in 1..Len(db.snapshots) :
        (i < j /\ db.snapshots[i].incentive_id = db.snapshots[j].incentive_id)
            => db.snapshots[i].scraped_at < db.snapshots[j].scraped_at

\* C7: a call that ends with an exception leaves the committed content as it
\* was, and none of its writes stays in the working content.
C7_Atomic ==
    [][\A p \in Procs :
          (pc[p] # "idle" /\ pc'[p] = "idle" /\ IsRaised(last'.ret))
              => (db' = db /\ txn' = db)]_vars

\* a call raised at its last UPDATE, with a snapshot and change rows written
C7_Witness ==
    /\ IsRaised(last.ret)
    /\ last.stage = "update_hash"
    /\ last.discarded >= 2

\* C8: no step changes the first_seen_at (or the dsire_id) of a committed
\* incentives row, in the committed content or in an open transaction.
C8_FirstSeenImmutable ==
    [][\A i \in 1..Len(db.incentives) :
          /\ i <= Len(db'.incentives)
          /\ db'.incentives[i].first_seen_at = db.incentives[i].first_seen_at
          /\ db'.incentives[i].dsire_id = db.incentives[i].dsire_id
          /\ i <= Len(txn'.incentives)
          /\ txn'.incentives[i].first_seen_at = db.incentives[i].first_seen_at]_vars

C8_Witness ==
    /\ \E i \in 1..Len(db.incentives) :
          /\ db.incentives[i].last_seen_at > db.incentives[i].first_seen_at
          /\ db.incentives[i].last_updated_at # SqlNull
          /\ ~db.incentives[i].is_active
    /\ \E k \in 1..Len(db.scan_logs) : db.scan_logs[k].status = "completed"

\* C9: a call that returns for a tracked entity has set last_seen_at to the
\* call's time and is_active to true; if the computed hash equals the stored
\* one, last_updated_at, data_hash, the snapshots and the change rows are as
\* before; last_updated_at or data_hash differ afterwards only if the computed
\* hash differed from the stored one.
C9_Observation ==
    [][\A p \in Procs :
          (pc[p] = "commit" /\ pc'[p] = "idle" /\ ~IsRaised(last'.ret) /\ call[p].found) =>
              LET id == call[p].incentive_id
                  old == db.incentives[id]
                  new == db'.incentives[id]
                  same == ComputeHash(call[p].data) = old.data_hash
              IN  /\ new.last_seen_at = call[p].now
                  /\ new.is_active
                  /\ same => /\ new.last_updated_at = old.last_updated_at
                             /\ new.data_hash = old.data_hash
                             /\ db'.snapshots = db.snapshots
                             /\ db'.changes = db.changes
                  /\ (new.last_updated_at # old.last_updated_at
                        \/ new.data_hash # old.data_hash) => ~same]_vars

\* an unchanged observation of a tracked entity returned, later than its creation
C9_Witness ==
    /\ Len(log) >= 2
    /\ log[Len(log)].found
    /\ log[Len(log)].ret = <<FALSE, FALSE>>
    /\ Tracked(log[Len(log)].dsire_id)
    /\ Entity(log[Len(log)].dsire_id).last_seen_at
         > Entity(log[Len(log)].dsire_id).first_seen_at
    /\ Entity(log[Len(log)].dsire_id).last_updated_at = SqlNull

\* C10: a call that returns for an entity that mark_inactive had flagged leaves
\* it with is_active true and last_seen_at at the call's time, and
\* get_all_incentives(active_only=True) returns it.
C10_Reactivation ==
    [][\A p \in Procs :
          (/\ pc[p] = "commit" /\ pc'[p] = "idle" /\ ~IsRaised(last'.ret)
           /\ call[p].found
           /\ ~db.incentives[call[p].incentive_id].is_active) =>
              /\ db'.incentives[call[p].incentive_id].is_active
              /\ db'.incentives[call[p].incentive_id].last_seen_at = call[p].now
              /\ call[p].incentive_id \in GetAllIncentives(db', "", TRUE)]_vars

\* the last call observed an entity flagged inactive, after the clock advanced
C10_Witness ==
    /\ Len(log) >= 2
    /\ log[Len(log)].found
    /\ ~log[Len(log)].was_active
    /\ Tracked(log[Len(log)].dsire_id)
    /\ ExistingId(db.incentives, log[Len(log)].dsire_id) \in GetAllIncentives(db, "", TRUE)
    /\ Entity(log[Len(log)].dsire_id).last_seen_at
         > Entity(log[Len(log)].dsire_id).first_seen_at

\* C11: a mark_inactive(ids) step keeps every snapshot, change row, scan_logs
\* row and incentives row; the rows whose dsire_id is in ids end with is_active
\* false and all their other fields as before, and every other row is unchanged.
C11_MarkInactiveFrame ==
    [][\A p \in Procs, ids \in SUBSET DsireIds :
          MarkInactive(p, ids) =>
              /\ db'.snapshots = db.snapshots
              /\ db'.changes = db.changes
              /\ db'.scan_logs = db.scan_logs
              /\ Len(db'.incentives) = Len(db.incentives)
              /\ \A i \in 1..Len(db.incentives) :
                    db'.incentives[i] =
                        IF db.incentives[i].dsire_id \in ids
                        THEN [db.incentives[i] EXCEPT !.is_active = FALSE]
                        ELSE db.incentives[i]]_vars

\* A is flagged while B, recorded as well, stays active
C11_Witness ==
    /\ Tracked("A") /\ Tracked("B")
    /\ ~Entity("A").is_active
    /\ Entity("B").is_active
    /\ Len(db.snapshots) = 2

\* C13 as stated: a scan_logs row is created with status running, and once its
\* status is completed or failed no step changes it.
C13_Original ==
    [][/\ \A i \in 1..Len(db.scan_logs) :
             /\ i <= Len(db'.scan_logs)
             /\ db.scan_logs[i].status # "running"
                   => db'.scan_logs[i].status = db.scan_logs[i].status
       /\ \A i \in (Len(db.scan_logs) + 1)..Len(db'.scan_logs) :
             db'.scan_logs[i].status = "running"]_vars

\* C12 as stated: when a full scan has completed, every incentive that was
\* active before it and whose dsire_id no scope returned is inactive, and the
\* scan_logs row counts these incentives in removed_incentives.
C12_Original ==
    (run.pc = "returned" /\ run.scan_type = "full" /\ run.status = "completed") =>
        LET gone == run.active_before \ run.all_found_ids
        IN  /\ \A i \in 1..Len(db.incentives) :
                  db.incentives[i].dsire_id \in gone => ~db.incentives[i].is_active
            /\ db.scan_logs[run.scan_id].removed_incentives = Cardinality(gone)

\* a run has ended, by returning or by raising, after an exception outside
\* the per-scope try block
OrchestrationError == run.pc \in {"returned", "raised"} /\ run.scan_id # 0 /\ run.error # ""

\* C14 as stated: when an exception is raised outside the per-scope try block
\* after the scan_logs row was inserted, in run_scan or in scan_states, the row
\* ends with status failed and the exception message in error_message, and is
\* never left running.
C14_Original ==
    OrchestrationError =>
        /\ db.scan_logs[run.scan_id].status = "failed"
        /\ db.scan_logs[run.scan_id].error_message = SqlText(run.error)

\* the run went through its whole scope list and end_scan closed it
ClosedCompleted == run.pc \in {"notify", "returned"} /\ run.status = "completed"

\* the dsire_ids of the programs that carry one, in the order of the list
IdsOf(programs) ==
    LET withId == SelectSeq(programs, LAMBDA program : ProgramId(program) # "")
    IN  [k \in 1..Len(withId) |-> ProgramId(withId[k])]

\* the dsire_ids handed to record_incentive while the loop was at scope k
RecordedAt(k) ==
    LET mine == SelectSeq(run.recorded, LAMBDA r : r[1] = k)
    IN  [j \in 1..Len(mine) |-> mine[j][2]]

ErrorsNaming(state) == {j \in 1..Len(run.errors) : run.errors[j] = state}

\* C15: partial failure tolerance. In a run that ended without an exception
\* outside the per-scope try, every scope of the list was processed; each scope
\* whose processing raised has exactly one entry in errors and every other scope
\* has none; every program with an id of every scope that did not raise was
\* handed to record_incentive, in order; and the scan_logs row is closed as
\* completed, however many scopes raised.
C15_PartialFailure ==
    /\ ClosedCompleted =>
          /\ Len(run.fetched) = Len(run.states)
          /\ \A k \in 1..Len(run.states) :
                /\ Cardinality(ErrorsNaming(run.states[k])) =
                      IF run.fetched[k].raised THEN 1 ELSE 0
                /\ ~run.fetched[k].raised =>
                      RecordedAt(k) = IdsOf(run.fetched[k].programs)
          /\ db.scan_logs[run.scan_id].status = "completed"
    /\ (run.pc = "handler" \/ (run.pc = "returned" /\ run.status = "failed")) =>
          run.error # ""

\* a run over NY, CA, TX in which the fetch of CA raised: A and B are recorded
\* and the one error names CA
C15_Witness ==
    /\ ClosedCompleted
    /\ run.states = ManualStates
    /\ run.errors = <<"CA">>
    /\ run.recorded = <<<<1, "A">>, <<3, "B">>>>

\* the run recorded at least one new or updated incentive
FoundChanges == run.new_incentives # <<>> \/ run.updated_incentives # <<>>

\* the calls _notify_callbacks made of the callback registered at position c
CallsOf(c) == {k \in 1..Len(run.invoked) : run.invoked[k].callback = c}

\* C19 as stated: after a run of run_scan every registered callback has been
\* invoked exactly once if and only if the run recorded a new or updated
\* incentive, each call was made after the scan_logs row was closed, and the row
\* is completed whatever the callbacks and the webhook POST raised.
C19_Original ==
    (run.path = "run_scan" /\ run.pc = "returned") =>
        /\ FoundChanges => \A c \in 1..run.callbacks : Cardinality(CallsOf(c)) = 1
        /\ ~FoundChanges => run.invoked = <<>>
        /\ \A k \in 1..Len(run.invoked) : run.invoked[k].status # "running"
        /\ run.invoked # <<>> => db.scan_logs[run.scan_id].status = "completed"

\* C19 amended: after a run of run_scan that closed its scan_logs row as
\* completed, every registered callback has been invoked exactly once if the
\* run recorded a new or updated incentive and none has been invoked otherwise;
\* each call was made after the row was closed; and the row is still completed
\* whatever the callbacks and the webhook POST raised. A run whose end_scan
\* raised, and which was therefore closed as failed, invokes no callback even
\* if it recorded new or updated incentives.
C19_Amended ==
    (run.path = "run_scan" /\ run.pc = "returned") =>
        IF run.status = "completed"
        THEN /\ FoundChanges => \A c \in 1..run.callbacks : Cardinality(CallsOf(c)) = 1
             /\ ~FoundChanges => run.invoked = <<>>
             /\ \A k \in 1..Len(run.invoked) : run.invoked[k].status = "completed"
             /\ db.scan_logs[run.scan_id].status = "completed"
        ELSE run.invoked = <<>>

\* the first of two callbacks raised, the second was still called, the webhook
\* POST failed and the run is completed
C19_Witness ==
    /\ run.path = "run_scan" /\ run.pc = "returned"
    /\ run.status = "completed"
    /\ FoundChanges
    /\ Len(run.invoked) = 2
    /\ run.invoked[1].raised
    /\ run.webhook = "failed"

\* a run whose scope list was chosen by _get_states_for_today
RotationRun == run.scan_id # 0 /\ run.rotation

NoDuplicates(seq) == Cardinality(Range(seq)) = Len(seq)

\* C16: scope rotation. On every day of the week the scope list chosen by
\* _get_states_for_today contains every priority scope and no scope twice; on
\* Sunday, or when scan_all_states is set, it is DSIREClient.US_STATES.
C16_Rotation ==
    RotationRun =>
        /\ Range(PRIORITY_STATES) \subseteq Range(run.states)
        /\ NoDuplicates(run.states)
        /\ (run.day = 6 \/ run.scan_all) => run.states = US_STATES
        /\ db.scan_logs[run.scan_id].states_scanned = SqlText(run.states)

\* a Monday run has gone through the priority scopes and the rest of northeast
C16_Witness ==
    /\ RotationRun /\ run.pc = "returned"
    /\ run.day = 0 /\ ~run.scan_all
    /\ Len(run.states) = 12
    /\ run.states[9] = "ME"

\* the scopes of the named groups
GroupScopes == UNION {Range(STATE_GROUPS[g]) : g \in 1..Len(STATE_GROUPS)}

\* C17 as stated: the rotation groups a scheduled run draws from are pairwise
\* disjoint, contain no priority scope, and their union is the scope universe
\* without the priority set, so that every non-priority scope is in exactly one
\* weekday group.
C17_Original ==
    RotationRun =>
        /\ \A g, h \in 1..Len(STATE_GROUPS) :
              g # h => Range(STATE_GROUPS[g]) \cap Range(STATE_GROUPS[h]) = {}
        /\ GroupScopes \cap Range(PRIORITY_STATES) = {}
        /\ GroupScopes = Range(US_STATES) \ Range(PRIORITY_STATES)
        /\ \A state \in Range(US_STATES) \ Range(PRIORITY_STATES) :
              \E g \in 1..Len(STATE_GROUPS) : state \in Range(STATE_GROUPS[g])

\* the calls of run_scan the job has made or is making
JobCalls == Len(job.outcomes) + (IF JobCalling THEN 1 ELSE 0)

\* C18: bounded retry of the scheduled job. When the scheduled run raises, the
\* job calls run_scan at most max_retries more times, sleeps retry_delay before
\* each of these calls, makes no call after the first one that returns, gives up
\* only after max_retries retries raised, and then returns: the job is never
\* left by an exception.
C18_BoundedRetry ==
    /\ JobCalls <= 1 + job.max_retries
    /\ job.attempt <= job.max_retries
    /\ Len(job.slept) = job.attempt
    /\ \A k \in 1..Len(job.slept) : job.slept[k] = retry_delay
    /\ JobCalls >= 1 => JobCalls - 1 = Len(job.slept)
    /\ \A k \in 1..Len(job.outcomes) :
          job.outcomes[k] = "returned" => (k = Len(job.outcomes) /\ job.pc = "done")
    /\ job.pc \in {"idle", "first", "loop", "retry", "done"}
    /\ (job.pc = "done" /\ job.outcomes[Len(job.outcomes)] = "raised") =>
          Len(job.outcomes) = 1 + job.max_retries

\* the scheduled run and the first retry raised, the second retry returned
C18_Witness ==
    /\ job.pc = "done"
    /\ job.outcomes = <<"raised", "raised", "returned">>
    /\ job.slept = <<retry_delay, retry_delay>>

\* C20 as stated: any two consecutive network calls of one client, whichever
\* operation issues them (check_api_status included), are at least
\* rate_limit_delay apart.
C20_Original ==
    \A k \in 1..(Len(client.requests) - 1) :
        client.requests[k + 1].at - client.requests[k].at >= client.rate_limit_delay

\* C28 as stated: when the scheduled run ends with its scan_logs row failed and
\* max_retries is at least 1, the job makes at least one retry; and
\* _last_scan_date is set only after a run whose row ended completed.
C28_Original ==
    /\ (/\ job.pc = "done" /\ job.max_retries >= 1
        /\ run.scan_type = "scheduled" /\ run.status = "failed") => job.attempt >= 1
    /\ job.last_scan_date =>
          (run.status = "completed" /\ db.scan_logs[run.scan_id].status = "completed")

\* how many of the record_incentive calls that returned gave TRUE at position i
ReturnsWith(i) == Cardinality({k \in 1..Len(run.returns) : run.returns[k][i]})

\* C30: scan_logs counts. In the row of a run closed as completed, total_found
\* is the number of record_incentive calls that returned during the run,
\* new_incentives the number of them that returned is_new and updated_incentives
\* the number that returned is_updated; no call returned both, so new plus
\* updated is at most total_found; programs without an id and programs whose
\* record_incentive raised are in none of the counts.
C30_Counts ==
    ClosedCompleted =>
        LET row == db.scan_logs[run.scan_id]
            withId == UNION {{<<k, j>> : j \in 1..Len(IdsOf(run.fetched[k].programs))} :
                                k \in 1..Len(run.fetched)}
        IN  /\ row.total_found = Len(run.returns)
            /\ row.new_incentives = ReturnsWith(1)
            /\ row.updated_incentives = ReturnsWith(2)
            /\ row.new_incentives + row.updated_incentives <= row.total_found
            /\ \A k \in 1..Len(run.returns) : ~(run.returns[k][1] /\ run.returns[k][2])
            /\ Len(run.returns) = Len(run.recorded)
            /\ Len(run.returns) <= Cardinality(withId)

\* a completed run that counted one new and one updated incentive and none for
\* the scope that raised
C30_Witness ==
    /\ ClosedCompleted
    /\ db.scan_logs[run.scan_id].new_incentives = 1
    /\ db.scan_logs[run.scan_id].updated_incentives = 1
    /\ db.scan_logs[run.scan_id].total_found = 2
    /\ run.errors = <<"CA">>

\* C24 as stated: run_now(states) opens one manual run that scans exactly the
\* list it was given, the empty list included, whatever the day of the week;
\* run_full_scan opens one full run over DSIREClient.US_STATES.
C24_Original ==
    run.scan_id # 0 =>
        /\ Len(db.scan_logs) = run.scan_id
        /\ db.scan_logs[run.scan_id].scan_type = run.scan_type
        /\ run.scan_type = "manual" => run.states = run.requested
        /\ run.scan_type = "full" => run.states = US_STATES

\* C26 as stated: when two interleaved calls observe the same incentive with
\* the same changed payload, exactly one of them returns is_updated and one
\* snapshot is written; and no incentive ever has two consecutive snapshots
\* with the same data_hash.
C26_Original ==
    /\ \A i, j \in 1..Len(log) :
          (i < j /\ SameObservation(log[i], log[j]) /\ log[i].ret = <<FALSE, TRUE>>)
              => log[j].ret = <<FALSE, FALSE>>
    /\ \A a, b \in 1..Len(db.snapshots) :
          (/\ a < b
           /\ db.snapshots[a].incentive_id = db.snapshots[b].incentive_id
           /\ \A c \in (a + 1)..(b - 1) :
                 db.snapshots[c].incentive_id # db.snapshots[a].incentive_id)
              => db.snapshots[a].data_hash # db.snapshots[b].data_hash

\* C27 as stated: every incentive for which a call of record_incentive returned
\* (False, True) is returned by get_updated_incentives for a window that
\* contains the call, also when the hash changed and no tracked field did.
C27_Original ==
    \A k \in 1..Len(log) :
        log[k].ret = <<FALSE, TRUE>> =>
            ExistingId(db.incentives, log[k].dsire_id) \in GetUpdatedIncentives(db, 0)

\* the calls that observed a dsire_id, in the order they returned
ObservedAt(dsire_id) == {k \in 1..Len(log) : log[k].dsire_id = dsire_id}

\* the rows the last get_new_incentives returned for a dsire_id
NewRowsOf(dsire_id) == {r \in last.ret : db.incentives[r[1]].dsire_id = dsire_id}

\* C22: windowed query. get_new_incentives(days=n) returns exactly one row for
\* every incentive whose first record_incentive call was made no more than n
\* days before the query, however many snapshots and updates it has had since,
\* and no row for any other incentive; the row carries the incentive's latest
\* snapshot.
C22_Window ==
    last.stage = "get_new_incentives" =>
        \A dsire_id \in DsireIds :
            LET calls == ObservedAt(dsire_id)
                first == CHOOSE k \in calls : \A j \in calls : k <= j
                inWindow == calls # {} /\ log[first].at >= last.at - last.days
            IN  /\ Cardinality(NewRowsOf(dsire_id)) = IF inWindow THEN 1 ELSE 0
                /\ \A r \in NewRowsOf(dsire_id) :
                      db.snapshots[r[2]].data_hash = Entity(dsire_id).data_hash

\* queried with days=1: A, first seen two days ago, is left out; B, first seen
\* yesterday, is returned
C22_Witness ==
    /\ last.stage = "get_new_incentives" /\ last.days = 1 /\ last.at = 2
    /\ \E k \in ObservedAt("A") : log[k].at = 0
    /\ \E k \in ObservedAt("A") : log[k].at = 2 /\ log[k].ret = <<FALSE, TRUE>>
    /\ NewRowsOf("A") = {}
    /\ Cardinality(NewRowsOf("B")) = 1

\* a program without the fetch timestamp the client stamps on it
Content(program) == SelectSeq(program, LAMBDA kv : kv[1] # "scraped_at")

\* every program the run fetched has the content of the snapshot stored by the
\* scan before it
SameCatalog ==
    \A k \in 1..Len(run.fetched) :
        \A j \in 1..Len(run.fetched[k].programs) :
            Content(run.fetched[k].programs[j]) = Content(JsonLoads(db.snapshots[1].data_json))

\* C25 as stated: a scan that finds the upstream content of its scopes as the
\* scan before it found it reports no new and no updated incentive and writes
\* no snapshot, by whichever strategy the entries were fetched.
C25_Original ==
    (ClosedCompleted /\ SameCatalog) =>
        /\ run.new_incentives = <<>>
        /\ run.updated_incentives = <<>>
        /\ Len(db.snapshots) = 1

\* the network calls made by the c-th call of get_programs_by_state
RequestsOf(c) == SelectSeq(client.requests, LAMBDA q : q.call = c)

\* C21: every call of get_programs_by_state requests the structured endpoint
\* first and once, requests the listing page (once) exactly when that request
\* failed on the network or its body was not JSON, does not raise when a
\* request fails on the network, and returns an empty list when both fail.
C21_Fallback ==
    \A c \in 1..(Len(log) + 1) :
        LET R == RequestsOf(c)
        IN  /\ Len(R) <= 2
            /\ Len(R) >= 1 => R[1].url = "api"
            /\ Len(R) = 2 =>
                   /\ R[2].url = "scrape"
                   /\ R[1].outcome \in {"timeout", "http_error", "connection_error", "not_json"}
            /\ c <= Len(log) =>
                   /\ Len(R) >= 1
                   /\ R[1].outcome \in {"timeout", "http_error", "connection_error", "not_json"}
                          => Len(R) = 2
                   /\ R[1].outcome \in NetworkFailures => ~log[c].raised
                   /\ (Len(R) = 2 /\ R[2].outcome \in NetworkFailures) =>
                          (~log[c].raised /\ log[c].ret = <<>>)

\* a call whose structured request returned a body that is not JSON and whose
\* listing-page request timed out has returned the empty list
C21_Witness ==
    \E c \in 1..Len(log) :
        /\ Len(RequestsOf(c)) = 2
        /\ RequestsOf(c)[1].outcome = "not_json"
        /\ RequestsOf(c)[2].outcome = "timeout"
        /\ log[c].ret = <<>>
        /\ ~log[c].raised

\* C23 as stated: once stop() has returned, and until a later start(), no
\* trigger is registered and no scheduled job begins.
C23_Original ==
    /\ sched.stopped => sched.triggers = 0
    /\ \A k \in 1..Len(sched.begun) : ~sched.begun[k].after_stop

\* C29 as stated: whatever start() and stop() calls were made, at most one
\* polling loop is active, at most one daily trigger is registered and no
\* scheduled job begins while another is running.
C29_Original ==
    /\ Cardinality(ActiveLoops) <= 1
    /\ sched.triggers <= 1
    /\ \A k \in 1..Len(sched.begun) : sched.begun[k].beside = {}

====
